---- MODULE Spec2Model ----
(***************************************************************************)
(* Model of OneShotAudio (voice admission and stealing) together with the  *)
(* parts of AudioItem and of the Web Audio source node it drives.          *)
(*                                                                         *)
(* Time is counted in ticks of 1/TicksPerSecond second; every quantity the *)
(* code holds in seconds (currentTime, minInterval, duration, lastStartAt) *)
(* is a number of ticks, stealFadeMs stays in milliseconds.  Volumes are   *)
(* counted in 1/VolUnits, so that gain 1.0 is VolUnits.                    *)
(***************************************************************************)
EXTENDS Integers, Sequences, FiniteSets, TLC

\* ------------------------------------------------------------ bounds
MaxLive == 3
HistCap == 3
MaxClock == 1
VolUnits == 10
TicksPerSecond == 100

\* ------------------------------------------------------------ values
\* a missing option or policy field (it reads as undefined)
NONE == -1
NoStrategy == "none"
\* a policy field whose key is present with the value undefined or null
UNDEFINED == -2
UndefinedStrategy == "undefined"

\* hardcoded fallbacks of init
DefaultMaxGlobalVoices == 32
DefaultMaxVoices == 8
DefaultMinInterval == (2 * TicksPerSecond) \div 100
DefaultPriority == 0
DefaultStealStrategy == "ignore"
DefaultStealFadeMs == 120

\* p ?? q
Coalesce(p, q) == IF p = NONE \/ p = UNDEFINED THEN q ELSE p
CoalesceStr(p, q) == IF p = NoStrategy \/ p = UndefinedStrategy THEN q ELSE p

\* { f: q, ...{ f: p } }: the key of the spread object wins whenever it is present
SpreadOver(p, q) == IF p = NONE THEN q ELSE p
SpreadOverStr(p, q) == IF p = NoStrategy THEN q ELSE p

Max(x, y) == IF x >= y THEN x ELSE y

\* manager.buffers: the names with a decoded buffer, and the names a caller may pass
Loaded == {"a", "b"}
Names == Loaded \cup {"zz"}

\* ------------------------------------------------------------ inputs
\* partial policies (a missing field is NONE / NoStrategy)
\* (spatialDefaults is << >> when missing, else <<the OneShotSpatialOptions object>>)
NoPolicy ==
  [maxVoices |-> NONE, minInterval |-> NONE, priority |-> NONE,
   stealStrategy |-> NoStrategy, stealFadeMs |-> NONE, spatialDefaults |-> <<>>]

DefaultPolicyArgs ==
  { NoPolicy,
    [NoPolicy EXCEPT !.maxVoices = 2, !.minInterval = 0, !.stealStrategy = "stealOldest"],
    [NoPolicy EXCEPT !.maxVoices = 1, !.minInterval = 0, !.stealStrategy = "stealQuietest", !.stealFadeMs = 0] }

TrackPolicyArgs ==
  { NoPolicy,
    [NoPolicy EXCEPT !.maxVoices = 1, !.stealStrategy = "ignore", !.stealFadeMs = 50],
    [NoPolicy EXCEPT !.priority = 1, !.minInterval = 1, !.stealStrategy = "stealQuietest"] }

MaxGlobalArgs == {NONE, 2}

\* the configurations init is called with: those in which some limit lies within
\* the number of voices that can exist at once
InitArgs ==
  { c \in MaxGlobalArgs \X DefaultPolicyArgs \X TrackPolicyArgs :
      c[1] # NONE \/ c[2].maxVoices # NONE }

\* options of a play call
\* (spatial is << >> when missing, else <<the OneShotSpatialOptions object>>)
NoOptions ==
  [volume |-> NONE, priority |-> NONE, minIntervalOverride |-> NONE,
   duration |-> NONE, stealStrategy |-> NoStrategy, spatial |-> <<>>]

PlayOptions ==
  { NoOptions,
    [NoOptions EXCEPT !.volume = 1],
    [NoOptions EXCEPT !.priority = 2],
    [NoOptions EXCEPT !.minIntervalOverride = 0],
    [NoOptions EXCEPT !.stealStrategy = "ignore"] }

\* the play calls made: any option set on track "a" (the track with a policy of its
\* own), a priority or nothing on the other loaded track, a plain call on an unknown one
Calls ==
  ({"a"} \X PlayOptions)
    \cup ((Loaded \ {"a"}) \X {NoOptions, [NoOptions EXCEPT !.priority = 2]})
    \cup ((Names \ Loaded) \X {NoOptions})

\* ------------------------------------------------------------ state
\* A voice object (with its node and the node's source) is kept while something can
\* still reach it: the registry, or the platform, which holds the source until it has
\* dispatched "ended".  voices lists these objects in creation order and a voice is
\* named by its place in the list; when an object is forgotten the later ones move up.
\* The Set objects are kept the same way: trackSets[n] lists the Sets created by
\* play(n) that the map or a handleEnd still reaches, oldest first, and a Set is named
\* by n and its place in that list.
Slots == 1..MaxLive

VARIABLES
  global,         \* OneShotAudio.global: maxGlobalVoices, defaultPolicy
  trackPolicies,  \* OneShotAudio.trackPolicies
  voices,         \* the voice objects {name, node, priority}, with the node's fields
  trackSets,      \* the per-track Set objects (insertion-ordered), by name
  active,         \* OneShotAudio.active (insertion-ordered Set of voices)
  activeByTrack,  \* OneShotAudio.activeByTrack: name -> Set object (0: no entry)
  lastStartAt,    \* OneShotAudio.lastStartAt: name -> time (NONE: no entry)
  clock,          \* context.currentTime
  last,           \* the last step: the call made and what it returned
  hist,           \* the steps since init, up to HistCap of them
  item,           \* an AudioItem the application made itself, with its current source
  provider        \* AudioContextProvider._context and the contexts it has created

vars == <<global, trackPolicies, voices, trackSets, active, activeByTrack, lastStartAt, clock, last, hist,
          item, provider>>
library == <<item, provider>>
config == <<global, trackPolicies>>
registry == <<active, trackSets, activeByTrack>>

\* ------------------------------------------------------------ history
NoCall == [op |-> "init", result |-> 0, victim |-> 0]
Over == <<[op |-> "more", name |-> "", plain |-> FALSE, result |-> 0]>>

Record(entry) ==
  hist' = IF hist = Over \/ Len(hist) >= HistCap THEN Over ELSE Append(hist, entry)

\* ------------------------------------------------------------ the wrappers, as constructed
\* new AudioItem(listener) with a buffer set: source 0 is null, source k > 0 the k-th
\* buffer source created for the item; created counts createBufferSource() calls,
\* onended and srcEnded are the handler of the current source and whether the platform
\* has dispatched its "ended"
AudioItemNew ==
  [isPlaying |-> FALSE, hasPlaybackControl |-> TRUE, source |-> 0, created |-> 0,
   progress |-> 0, startedAt |-> 0, onended |-> "null", srcEnded |-> FALSE,
   connected |-> FALSE]

\* static _context: UNDEFINED until first read; context k > 0 is the k-th one the
\* getter has created
ProviderNew == [context |-> UNDEFINED, created |-> 0]

\* ------------------------------------------------------------ init
\* { maxVoices: 8, ..., ...global.defaultPolicy }
SpreadDefaultPolicy(dp) ==
  [maxVoices |-> SpreadOver(dp.maxVoices, DefaultMaxVoices),
   minInterval |-> SpreadOver(dp.minInterval, DefaultMinInterval),
   priority |-> SpreadOver(dp.priority, DefaultPriority),
   stealStrategy |-> SpreadOverStr(dp.stealStrategy, DefaultStealStrategy),
   stealFadeMs |-> SpreadOver(dp.stealFadeMs, DefaultStealFadeMs),
   spatialDefaults |-> dp.spatialDefaults]

InitGlobal(maxGlobal, dp) ==
  [maxGlobalVoices |-> Coalesce(maxGlobal, DefaultMaxGlobalVoices),
   defaultPolicy |-> SpreadDefaultPolicy(dp)]

Init ==
  /\ \E c \in InitArgs :
       /\ global = InitGlobal(c[1], c[2])
       /\ trackPolicies = [n \in Names |-> IF n = "a" THEN c[3] ELSE NoPolicy]
  /\ voices = <<>>
  /\ trackSets = [n \in Names |-> <<>>]
  /\ active = <<>>
  /\ activeByTrack = [n \in Names |-> 0]
  /\ lastStartAt = [n \in Names |-> NONE]
  /\ clock = 0
  /\ last = NoCall
  /\ hist = <<>>
  /\ item = AudioItemNew
  /\ provider = ProviderNew

\* ------------------------------------------------------------ getPolicy
getPolicy(name) ==
  LET p == trackPolicies[name]
      d == global.defaultPolicy
  IN [maxVoices |-> Coalesce(p.maxVoices, d.maxVoices),
      minInterval |-> Coalesce(p.minInterval, d.minInterval),
      priority |-> Coalesce(p.priority, d.priority),
      stealStrategy |-> CoalesceStr(p.stealStrategy, d.stealStrategy),
      stealFadeMs |-> Coalesce(Coalesce(p.stealFadeMs, d.stealFadeMs), DefaultStealFadeMs),
      spatialDefaults |-> p.spatialDefaults]

\* ------------------------------------------------------------ getActiveCount
\* (this.activeByTrack.get(name) || new Set())
TrackSetOf(name) ==
  IF name \notin DOMAIN activeByTrack \/ activeByTrack[name] = 0 THEN <<>>
  ELSE trackSets[name][activeByTrack[name]]

getActiveCountAll == Len(active)
\* if (!name) return this.active.size: the empty string is falsy
getActiveCount(name) == IF name = "" THEN Len(active) ELSE Len(TrackSetOf(name))

\* ------------------------------------------------------------ Set operations
\* Set.prototype.delete on an insertion-ordered Set
SetDelete(seq, x) == SelectSeq(seq, LAMBDA y : y # x)
\* Set.prototype.add
SetAdd(seq, x) == IF \E i \in 1..Len(seq) : seq[i] = x THEN seq ELSE Append(seq, x)
Elems(seq) == {seq[i] : i \in 1..Len(seq)}

\* ------------------------------------------------------------ _ensureCapacity
\* mutant: the global limit tested with > instead of >=
GlobalFullOffByOne == Len(active) > global.maxGlobalVoices
GlobalFull == Len(active) >= global.maxGlobalVoices
\* mutant: the track taken as full one voice early
TrackFullEarly(policy, trackSeq) == Len(trackSeq) + 1 >= policy.maxVoices

\* trackSet.size >= policy.maxVoices
TrackFull(policy, trackSeq) == Len(trackSeq) >= policy.maxVoices

\* score = pr * -1000 + vol, in 1/VolUnits
Score(v) == Coalesce(voices[v].priority, 0) * (-1000 * VolUnits) + voices[v].vol

\* mutant: a later voice of equal score taken (score <= minScore)
RECURSIVE QuietestScanTakesLast(_, _, _)
QuietestScanTakesLast(i, minScore, victim) ==
  IF i > Len(active) THEN victim
  ELSE LET v == active[i]
       IN IF victim = 0 \/ Score(v) <= minScore
          THEN QuietestScanTakesLast(i + 1, Score(v), v)
          ELSE QuietestScanTakesLast(i + 1, minScore, victim)

\* for (const v of this.active) { if (score < minScore) { minScore = score; victim = v } }
\* victim = 0 stands for minScore = Infinity
RECURSIVE QuietestScan(_, _, _)
QuietestScan(i, minScore, victim) ==
  IF i > Len(active) THEN victim
  ELSE LET v == active[i]
       IN IF victim = 0 \/ Score(v) < minScore
          THEN QuietestScan(i + 1, Score(v), v)
          ELSE QuietestScan(i + 1, minScore, victim)

\* mutant: the last-inserted voice taken instead of the first
OldestOfTakesNewest(trackSeq) ==
  IF Len(trackSeq) > 0 THEN trackSeq[Len(trackSeq)]
  ELSE IF Len(active) > 0 THEN active[Len(active)] ELSE 0

\* trackSet.values().next().value || this.active.values().next().value
OldestOf(trackSeq) ==
  IF Len(trackSeq) > 0 THEN Head(trackSeq)
  ELSE IF Len(active) > 0 THEN Head(active) ELSE 0

\* mutant: the victim taken among all voices still sounding, evicted ones included
pickVictimAmongLive(strategy, trackSeq) ==
  IF strategy \in {"stealOldest", "stealQuietest"}
  THEN IF \E v \in 1..Len(voices) : ~voices[v].ended
       THEN CHOOSE v \in 1..Len(voices) :
              ~voices[v].ended /\ \A w \in 1..(v - 1) : voices[w].ended
       ELSE 0
  ELSE 0

\* mutant: the strategy name compared with a misspelt 'stealoldest'
pickVictimMisspelt(strategy, trackSeq) ==
  IF strategy = "stealoldest" THEN OldestOf(trackSeq)
  ELSE IF strategy = "stealQuietest" THEN QuietestScan(1, 0, 0)
  ELSE 0

pickVictim(strategy, trackSeq) ==
  IF strategy = "stealOldest" THEN OldestOf(trackSeq)
  ELSE IF strategy = "stealQuietest" THEN QuietestScan(1, 0, 0)
  ELSE 0

\* mutant: the priority guard left out
MoreImportantNever(victim, newPriority) == FALSE

\* (victim.priority ?? 0) > (newPriority ?? 0)
MoreImportant(victim, newPriority) ==
  Coalesce(voices[victim].priority, 0) > Coalesce(newPriority, 0)

\* mutant: the 'ignore' strategy not returning early, stealing the oldest instead
ensureCapacityNoIgnore(policy, trackSeq, newPriority) ==
  IF ~GlobalFull /\ ~TrackFull(policy, trackSeq) THEN [ok |-> TRUE, victim |-> 0]
  ELSE LET victim == IF policy.stealStrategy = "ignore" THEN OldestOf(trackSeq)
                     ELSE pickVictim(policy.stealStrategy, trackSeq)
       IN IF victim = 0 THEN [ok |-> FALSE, victim |-> 0]
          ELSE IF MoreImportant(victim, newPriority) THEN [ok |-> FALSE, victim |-> 0]
          ELSE [ok |-> TRUE, victim |-> victim]

\* the decision of _ensureCapacity: whether it returns true, and the voice it evicts (0: none)
ensureCapacity(policy, trackSeq, newPriority) ==
  IF ~GlobalFull /\ ~TrackFull(policy, trackSeq) THEN [ok |-> TRUE, victim |-> 0]
  ELSE IF policy.stealStrategy = "ignore" THEN [ok |-> FALSE, victim |-> 0]
  ELSE LET victim == pickVictim(policy.stealStrategy, trackSeq)
       IN IF victim = 0 THEN [ok |-> FALSE, victim |-> 0]
          ELSE IF MoreImportant(victim, newPriority) THEN [ok |-> FALSE, victim |-> 0]
          ELSE [ok |-> TRUE, victim |-> victim]

\* mutant: stealFadeMs taken as seconds
FadeTicksAsSeconds(policy) == Max(0, policy.stealFadeMs) * TicksPerSecond

\* stopAt - t = fadeMs / 1000 seconds, fadeMs = Math.max(0, policy.stealFadeMs || 0)
FadeTicks(policy) == (Max(0, policy.stealFadeMs) * TicksPerSecond) \div 1000

\* AudioItem.stop(delay): source.stop(currentTime + delay); source.onended = null; isPlaying = false
AudioItemStop(node, delay) ==
  [node EXCEPT !.stopAt = clock + delay, !.onended = "null", !.isPlaying = FALSE]

\* AudioItem.disconnect()
AudioItemDisconnect(node) == [node EXCEPT !.connected = FALSE]

\* mutant: the victim's handleEnd left installed on its source
EvictNodeKeepsHandler(node, policy) ==
  [node EXCEPT !.volTarget = NONE, !.rampEnd = clock + FadeTicks(policy),
               !.stopAt = clock + FadeTicks(policy), !.isPlaying = FALSE]

\* the eviction of _ensureCapacity on the victim's node: ramp the gain to 0 until
\* stopAt, replace handleEnd (and the track Set it captured) by cleanup as onended,
\* then node.stop(stopAt - t)
EvictNode(node, policy) ==
  LET faded == [node EXCEPT !.volTarget = NONE, !.rampEnd = clock + FadeTicks(policy)]
      hooked == [faded EXCEPT !.onended = "cleanup", !.trackSet = 0]
  IN AudioItemStop(hooked, FadeTicks(policy))

\* mutant: the victim left in its track's Set
SetsAfterEvictKeepsVictim(victim) == trackSets

\* mutant: the map entry of the victim's track dropped without testing vs.size
MapAfterEvictDropsEntry(victim) ==
  IF victim = 0 THEN activeByTrack
  ELSE [activeByTrack EXCEPT ![voices[victim].name] = 0]

\* the registry after this.active.delete(victim); vs.delete(victim);
\* if (vs.size === 0) this.activeByTrack.delete(victim.name)
SetsAfterEvict(victim) ==
  IF victim = 0 \/ activeByTrack[voices[victim].name] = 0 THEN trackSets
  ELSE [trackSets EXCEPT ![voices[victim].name][activeByTrack[voices[victim].name]] = SetDelete(@, victim)]

MapAfterEvict(victim) ==
  IF victim = 0 \/ activeByTrack[voices[victim].name] = 0 THEN activeByTrack
  ELSE IF Len(SetsAfterEvict(victim)[voices[victim].name][activeByTrack[voices[victim].name]]) = 0
       THEN [activeByTrack EXCEPT ![voices[victim].name] = 0]
       ELSE activeByTrack

\* ------------------------------------------------------------ object names
Live == 1..Len(voices)
RemoveAt(seq, k) == [i \in 1..(Len(seq) - 1) |-> IF i < k THEN seq[i] ELSE seq[i + 1]]
MoveUp(x, k) == IF x > k THEN x - 1 ELSE x

\* the registry and the voices after a step that leaves vs, act, sets and map: the Set
\* objects that neither the map nor the handleEnd of a voice reaches are forgotten
Commit(vs, act, sets, map) ==
  LET Reached(n, i) == \/ map[n] = i
                       \/ \E v \in 1..Len(vs) : vs[v].name = n /\ vs[v].trackSet = i
      Kept(n) == {j \in 1..Len(sets[n]) : Reached(n, j)}
      NewIx(n, i) == Cardinality({j \in Kept(n) : j <= i})
  IN /\ voices' = [v \in 1..Len(vs) |->
                     [vs[v] EXCEPT !.trackSet = IF @ = 0 THEN 0 ELSE NewIx(vs[v].name, @)]]
     /\ active' = act
     /\ trackSets' = [n \in Names |->
                        [k \in 1..Cardinality(Kept(n)) |->
                           sets[n][CHOOSE j \in Kept(n) : NewIx(n, j) = k]]]
     /\ activeByTrack' = [n \in Names |-> IF map[n] = 0 THEN 0 ELSE NewIx(n, map[n])]

\* the state after the "ended" of voice v has been handled, leaving vs, act, sets and
\* map: v is forgotten when its source has ended and the registry no longer holds it
AfterEnded(v, vs, act, sets, map) ==
  LET gone == /\ vs[v].ended
              /\ v \notin Elems(act)
              /\ \A n \in Names : \A i \in 1..Len(sets[n]) : v \notin Elems(sets[n][i])
      Ren(seq) == [i \in 1..Len(seq) |-> MoveUp(seq[i], v)]
  IN IF gone
     THEN Commit(RemoveAt(vs, v), Ren(act),
                 [n \in Names |-> [i \in 1..Len(sets[n]) |-> Ren(sets[n][i])]], map)
     ELSE Commit(vs, act, sets, map)

\* ------------------------------------------------------------ play
\* mutant: now - last <= minInt
RateLimitedInclusive(now, lastAt, minInt) == lastAt # NONE /\ now - lastAt <= minInt

\* now - last < minInt, with last = -Infinity when the track has no entry
RateLimited(now, lastAt, minInt) == lastAt # NONE /\ now - lastAt < minInt

\* mutant: one last-start time shared by all tracks
StampedAtAll(name) == [n \in Names |-> clock]

\* mutant: the start of the timeline recorded instead of the clock reading
StampedAtZero(name) == [lastStartAt EXCEPT ![name] = 0]

\* this.lastStartAt.set(name, now)
StampedAt(name) == [lastStartAt EXCEPT ![name] = clock]

EffectiveMinInterval(policy, opts) == Coalesce(opts.minIntervalOverride, policy.minInterval)
\* mutant: the priority option not read
NewPriorityFromPolicy(policy, opts) == policy.priority

\* options.priority ?? policy.priority
NewPriority(policy, opts) == Coalesce(opts.priority, policy.priority)

\* ------------------------------------------------------------ SpatialAudio
\* a OneShotSpatialOptions object with no property given; a position is named by a
\* number, 0 being the origin
NoSpatial ==
  [refDistance |-> NONE, maxDistance |-> NONE, rolloffFactor |-> NONE,
   coneInnerAngle |-> NONE, coneOuterAngle |-> NONE, coneOuterGain |-> NONE,
   position |-> NONE]

\* the values setDirectionalCone is given for a cone property that is not set
ConeAngleFallback == 360
ConeGainFallback == 0

\* this.context.createPanner(): the panner with the platform's initial values
PannerNew ==
  [refDistance |-> 1, maxDistance |-> 10000, rolloffFactor |-> 1,
   coneInnerAngle |-> 360, coneOuterAngle |-> 360, coneOuterGain |-> 0,
   distanceModel |-> "inverse", position |-> 0]

\* new SpatialAudio(listener): isPlaying and hasPlaybackControl as AudioItem's
\* constructor sets them
SpatialAudioNew == [isPlaying |-> FALSE, hasPlaybackControl |-> TRUE, panner |-> PannerNew]

setDirectionalCone(panner, inner, outer, gain) ==
  [panner EXCEPT !.coneInnerAngle = inner, !.coneOuterAngle = outer, !.coneOuterGain = gain]

\* setPosition: skipped on an item with playback control that is not playing; else the
\* panner's position parameters are ramped to the point (position is the value the
\* ramp ends at)
setPosition(node, pos) ==
  IF node.hasPlaybackControl /\ ~node.isPlaying THEN node
  ELSE [node EXCEPT !.panner.position = pos]

\* the block of play that copies the properties of one OneShotSpatialOptions object
\* (policy.spatialDefaults, then options.spatial) to the node
ApplySpatial(panner, s) ==
  LET p1 == [panner EXCEPT
               !.refDistance = IF s.refDistance # NONE THEN s.refDistance ELSE @,
               !.maxDistance = IF s.maxDistance # NONE THEN s.maxDistance ELSE @,
               !.rolloffFactor = IF s.rolloffFactor # NONE THEN s.rolloffFactor ELSE @]
  IN IF s.coneInnerAngle # NONE \/ s.coneOuterAngle # NONE \/ s.coneOuterGain # NONE
     THEN setDirectionalCone(p1, Coalesce(s.coneInnerAngle, ConeAngleFallback),
                             Coalesce(s.coneOuterAngle, ConeAngleFallback),
                             Coalesce(s.coneOuterGain, ConeGainFallback))
     ELSE p1

\* mutant: the position issued before node.play()
SpatialNodePositionFirst(policy, opts) ==
  LET sd == IF policy.spatialDefaults = <<>> THEN NoSpatial ELSE policy.spatialDefaults[1]
      sp == opts.spatial[1]
      made == [SpatialAudioNew EXCEPT !.panner = ApplySpatial(ApplySpatial(@, sd), sp)]
      placed == IF sp.position # NONE THEN setPosition(made, sp.position) ELSE made
  IN [placed EXCEPT !.isPlaying = TRUE]

\* the spatial node of a play with options.spatial, as play leaves it: created, the
\* policy's spatialDefaults and the call's spatial properties applied, node.play(),
\* then setPosition(desiredPosition)
SpatialNode(policy, opts) ==
  LET sd == IF policy.spatialDefaults = <<>> THEN NoSpatial ELSE policy.spatialDefaults[1]
      sp == opts.spatial[1]
      made == [SpatialAudioNew EXCEPT !.panner = ApplySpatial(ApplySpatial(@, sd), sp)]
      started == [made EXCEPT !.isPlaying = TRUE]
  IN IF sp.position # NONE THEN setPosition(started, sp.position) ELSE started

\* the panner of the node play creates: << >> for an AudioItem
PannerOf(policy, opts) ==
  IF opts.spatial = <<>> THEN <<>> ELSE <<SpatialNode(policy, opts).panner>>

\* mutant: the timed stop made through node.stop(), which clears the handler
NewVoiceStoppedThroughItem(name, setId, policy, opts) ==
  [name |-> name,
   priority |-> NewPriority(policy, opts),
   trackSet |-> setId,
   vol |-> VolUnits,
   volTarget |-> opts.volume,
   rampEnd |-> NONE,
   isPlaying |-> opts.duration = NONE,
   connected |-> TRUE,
   onended |-> IF opts.duration = NONE THEN "handleEnd" ELSE "null",
   stopAt |-> IF opts.duration = NONE THEN NONE ELSE clock + Max(0, opts.duration),
   ended |-> FALSE,
   panner |-> PannerOf(policy, opts)]

\* const voice = { name, node, priority } with node = new AudioItem(listener) or
\* new SpatialAudio(listener);
\* node.volume = options.volume; node.play(); source.onended = handleEnd;
\* source.stop(now + Math.max(0, duration))
NewVoice(name, setId, policy, opts) ==
  [name |-> name,
   priority |-> NewPriority(policy, opts),
   trackSet |-> setId,
   vol |-> VolUnits,
   volTarget |-> opts.volume,
   rampEnd |-> NONE,
   isPlaying |-> TRUE,
   connected |-> TRUE,
   onended |-> "handleEnd",
   stopAt |-> IF opts.duration = NONE THEN NONE ELSE clock + Max(0, opts.duration),
   ended |-> FALSE,
   panner |-> PannerOf(policy, opts)]

PlayEntry(name, opts, result) ==
  [op |-> "play", name |-> name, plain |-> (opts = NoOptions), result |-> result]

\* mutant: the start time recorded before the capacity test, so also by a refused call
RejectedAfterStamp(name, opts) ==
  /\ last' = [op |-> "play", result |-> 0, victim |-> 0]
  /\ Record(PlayEntry(name, opts, 0))
  /\ lastStartAt' = [lastStartAt EXCEPT ![name] = clock]
  /\ UNCHANGED <<config, library, voices, registry, clock>>

\* return null
Rejected(name, opts) ==
  /\ last' = [op |-> "play", result |-> 0, victim |-> 0]
  /\ Record(PlayEntry(name, opts, 0))
  /\ UNCHANGED <<config, library, voices, registry, lastStartAt, clock>>

\* mutant: the victim left in the global Set until its node has stopped
ActiveAfterEvictLate(victim) == active

\* this.active.delete(victim) in _ensureCapacity (victim 0: nothing evicted)
ActiveAfterEvict(victim) == SetDelete(active, victim)

\* the admission path of play, voices1 being the voices as _ensureCapacity left them
AdmittedWith(name, opts, policy, victim, voices1) ==
  /\ Len(voices) < MaxLive
  /\ LET id == Len(voices) + 1
         \* const trackSet = this.activeByTrack.get(name) || new Set(), taken before the steal
         fresh == activeByTrack[name] = 0
         setIx == IF fresh THEN Len(trackSets[name]) + 1 ELSE activeByTrack[name]
         sets1 == IF fresh THEN [SetsAfterEvict(victim) EXCEPT ![name] = Append(@, <<>>)]
                  ELSE SetsAfterEvict(victim)
     IN /\ Commit(Append(voices1, NewVoice(name, setIx, policy, opts)),
                  SetAdd(ActiveAfterEvict(victim), id),
                  [sets1 EXCEPT ![name][setIx] = SetAdd(@, id)],
                  [MapAfterEvict(victim) EXCEPT ![name] = setIx])
        /\ lastStartAt' = StampedAt(name)
        /\ last' = [op |-> "play", result |-> id, victim |-> victim]
        /\ Record(PlayEntry(name, opts, id))
        /\ UNCHANGED <<config, library, clock>>

\* mutant: the victim faded by the policy of its own track
AdmittedByVictimPolicy(name, opts, policy, victim) ==
  AdmittedWith(name, opts, policy, victim,
               IF victim = 0 THEN voices
               ELSE [voices EXCEPT ![victim] = EvictNode(@, getPolicy(voices[victim].name))])

\* play past _ensureCapacity(policy, ...), which fades the victim by the policy it is given
Admitted(name, opts, policy, victim) ==
  AdmittedWith(name, opts, policy, victim,
               IF victim = 0 THEN voices ELSE [voices EXCEPT ![victim] = EvictNode(@, policy)])

Play(name, opts) ==
  IF name \notin Loaded THEN Rejected(name, opts)
  ELSE LET policy == getPolicy(name)
       IN IF RateLimited(clock, lastStartAt[name], EffectiveMinInterval(policy, opts))
          THEN Rejected(name, opts)
          ELSE LET cap == ensureCapacity(policy, TrackSetOf(name), NewPriority(policy, opts))
               IN IF ~cap.ok THEN Rejected(name, opts)
                  ELSE Admitted(name, opts, policy, cap.victim)

\* ------------------------------------------------------------ the platform
\* the gain AudioParam one tick later: setTargetAtTime (time constant 0.01 s) has
\* reached its target, a linear ramp to 0 has advanced towards rampEnd
GainAfterTick(node, now) ==
  IF node.rampEnd # NONE
  THEN IF now >= node.rampEnd THEN [node EXCEPT !.vol = 0]
       ELSE [node EXCEPT !.vol = @ - (@ \div (node.rampEnd - (now - 1)))]
  ELSE IF node.volTarget # NONE THEN [node EXCEPT !.vol = node.volTarget, !.volTarget = NONE]
  ELSE node

Tick ==
  /\ clock < MaxClock
  /\ clock' = clock + 1
  /\ voices' = [i \in Live |-> GainAfterTick(voices[i], clock + 1)]
  /\ last' = [NoCall EXCEPT !.op = "tick"]
  /\ Record([op |-> "tick", name |-> "", plain |-> FALSE, result |-> 0])
  /\ UNCHANGED <<config, library, registry, lastStartAt>>

\* the node of a voice as handleEnd leaves it: disconnected by the caller of this
\* operator, onended cleared; handleEnd does not call node.onEnded(), so isPlaying and
\* the progress of the node stay as they were
HandleEndNode(disconnected) == [disconnected EXCEPT !.onended = "null", !.ended = TRUE]

\* handleEnd of play: disconnect, remove the voice from active and from the captured
\* trackSet, drop the map entry of name when that set is empty, clear onended
\* mutant: the node disconnected but the voice left in the registry
HandleEndWithoutDelete(v, disconnected) ==
  AfterEnded(v, [voices EXCEPT ![v] = [disconnected EXCEPT !.onended = "null", !.ended = TRUE]],
             active, trackSets, activeByTrack)

\* (disconnected is the node as try { node.disconnect() } catch (_) {} left it)
HandleEndWith(v, disconnected) ==
  LET node == voices[v]
      sets1 == [trackSets EXCEPT ![node.name][node.trackSet] = SetDelete(@, v)]
      map1 == IF Len(sets1[node.name][node.trackSet]) = 0
              THEN [activeByTrack EXCEPT ![node.name] = 0]
              ELSE activeByTrack
      voices1 == [voices EXCEPT ![v] = [HandleEndNode(disconnected) EXCEPT !.trackSet = 0]]
  IN AfterEnded(v, voices1, SetDelete(active, v), sets1, map1)

HandleEnd(v) == HandleEndWith(v, AudioItemDisconnect(voices[v]))

\* cleanup of _ensureCapacity: disconnect the victim's node, clear onended
StealCleanup(v) ==
  AfterEnded(v, [voices EXCEPT ![v] = [AudioItemDisconnect(@) EXCEPT !.onended = "null", !.ended = TRUE]],
             active, trackSets, activeByTrack)

\* AudioItem.onEnded: isPlaying = false
ItemOnEnded(v) ==
  AfterEnded(v, [voices EXCEPT ![v] = [@ EXCEPT !.isPlaying = FALSE, !.ended = TRUE]],
             active, trackSets, activeByTrack)

\* no handler installed (onended = null)
NoHandler(v) ==
  AfterEnded(v, [voices EXCEPT ![v].ended = TRUE], active, trackSets, activeByTrack)

\* the source node of voice v ends (end of the buffer, or its scheduled stop) and the
\* platform dispatches "ended" to the handler installed at that time
SourceEnded(v) ==
  /\ v \in Live
  /\ ~voices[v].ended
  /\ CASE voices[v].onended = "handleEnd" -> HandleEnd(v)
       [] voices[v].onended = "cleanup" -> StealCleanup(v)
       [] voices[v].onended = "onEnded" -> ItemOnEnded(v)
       [] OTHER -> NoHandler(v)
  /\ last' = [NoCall EXCEPT !.op = "ended", !.result = v]
  /\ Record([op |-> "ended", name |-> "", plain |-> FALSE, result |-> 0])
  /\ UNCHANGED <<config, library, lastStartAt, clock>>

\* ------------------------------------------------------------ specification
Next ==
  \/ \E call \in Calls : Play(call[1], call[2])
  \/ Tick
  \/ \E v \in Slots : SourceEnded(v)

Spec == Init /\ [][Next]_vars

\* ------------------------------------------------------------ platform faults
\* which of the guarded platform calls of a steal throw: scheduling the fade on the
\* gain, node.stop(), and node.disconnect() inside cleanup
Faults ==
  { f \in [fade : BOOLEAN, stop : BOOLEAN, disconnect : BOOLEAN] : f.disconnect => f.stop }

\* the calls made while faults are injected: plain calls on the loaded tracks
FaultCalls == Loaded \X {NoOptions}

\* the eviction on the victim's node when some of these throw: a fade that throws
\* schedules nothing; a stop that throws leaves the source running with cleanup
\* installed, and the catch runs cleanup at once (disconnect unless that throws too,
\* then onended = null)
EvictNodeFaulty(node, policy, f) ==
  LET faded == IF f.fade THEN node
               ELSE [node EXCEPT !.volTarget = NONE, !.rampEnd = clock + FadeTicks(policy)]
      hooked == [faded EXCEPT !.onended = "cleanup", !.trackSet = 0]
  IN IF f.stop
     THEN [(IF f.disconnect THEN hooked ELSE AudioItemDisconnect(hooked)) EXCEPT !.onended = "null"]
     ELSE AudioItemStop(hooked, FadeTicks(policy))

PlayFaulty(name, opts, f) ==
  IF name \notin Loaded THEN Rejected(name, opts)
  ELSE LET policy == getPolicy(name)
       IN IF RateLimited(clock, lastStartAt[name], EffectiveMinInterval(policy, opts))
          THEN Rejected(name, opts)
          ELSE LET cap == ensureCapacity(policy, TrackSetOf(name), NewPriority(policy, opts))
               IN IF ~cap.ok THEN Rejected(name, opts)
                  ELSE AdmittedWith(name, opts, policy, cap.victim,
                         IF cap.victim = 0 THEN voices
                         ELSE [voices EXCEPT ![cap.victim] = EvictNodeFaulty(@, policy, f)])

\* mutant: no try around node.disconnect(), the exception ends the handler
HandleEndUncaught(v, threw) ==
  IF threw THEN AfterEnded(v, [voices EXCEPT ![v].ended = TRUE], active, trackSets, activeByTrack)
  ELSE HandleEnd(v)

\* handleEnd when node.disconnect() may throw: the node stays connected and the handler
\* goes on
HandleEndFaulty(v, threw) ==
  HandleEndWith(v, IF threw THEN voices[v] ELSE AudioItemDisconnect(voices[v]))

SourceEndedFaulty(v, threw) ==
  /\ v \in Live
  /\ ~voices[v].ended
  /\ CASE voices[v].onended = "handleEnd" -> HandleEndFaulty(v, threw)
       [] voices[v].onended = "cleanup" -> StealCleanup(v)
       [] voices[v].onended = "onEnded" -> ItemOnEnded(v)
       [] OTHER -> NoHandler(v)
  /\ last' = [NoCall EXCEPT !.op = "ended", !.result = v]
  /\ Record([op |-> "ended", name |-> "", plain |-> FALSE, result |-> 0])
  /\ UNCHANGED <<config, library, lastStartAt, clock>>

\* init with a default policy that steals and no track policy
FaultInit ==
  /\ Init
  /\ trackPolicies["a"] = NoPolicy
  /\ global.defaultPolicy.stealStrategy # "ignore"

FaultNext ==
  \/ \E call \in FaultCalls, f \in Faults : PlayFaulty(call[1], call[2], f)
  \/ Tick
  \/ \E v \in Slots, threw \in BOOLEAN : SourceEndedFaulty(v, threw)

FaultSpec == FaultInit /\ [][FaultNext]_vars

\* ------------------------------------------------------------ policy resolution
\* the default policies and the policies of track "a" that init is given: each field
\* missing, present without a value, or set
DefaultFieldArgs ==
  [maxVoices : {NONE, UNDEFINED, 3}, minInterval : {NONE, 1}, priority : {NONE, UNDEFINED, 2},
   stealStrategy : {NoStrategy, UndefinedStrategy, "stealOldest"},
   stealFadeMs : {NONE, UNDEFINED, 50},
   spatialDefaults : {<<>>, <<[NoSpatial EXCEPT !.refDistance = 3, !.coneInnerAngle = 60]>>}]

TrackFieldArgs ==
  [maxVoices : {NONE, UNDEFINED, 4}, minInterval : {NONE, 3}, priority : {NONE, 5},
   stealStrategy : {NoStrategy, "stealQuietest"},
   stealFadeMs : {NONE, UNDEFINED, 70},
   spatialDefaults : {<<>>, <<[NoSpatial EXCEPT !.refDistance = 7]>>}]

PolicyInit ==
  /\ \E dp \in DefaultFieldArgs, tp \in TrackFieldArgs :
       /\ global = InitGlobal(NONE, dp)
       /\ trackPolicies = [n \in Names |-> IF n = "a" THEN tp ELSE NoPolicy]
  /\ voices = <<>>
  /\ trackSets = [n \in Names |-> <<>>]
  /\ active = <<>>
  /\ activeByTrack = [n \in Names |-> 0]
  /\ lastStartAt = [n \in Names |-> NONE]
  /\ clock = 0
  /\ last = NoCall
  /\ hist = <<>>
  /\ item = AudioItemNew
  /\ provider = ProviderNew

\* a call getPolicy(name); last keeps the name and the object returned
Resolve(name) ==
  /\ last' = [op |-> "getPolicy", result |-> 0, victim |-> 0, name |-> name, policy |-> getPolicy(name)]
  /\ UNCHANGED <<config, library, voices, registry, lastStartAt, clock, hist>>

PolicyNext == \E n \in Names : Resolve(n)

PolicySpec == PolicyInit /\ [][PolicyNext]_vars

\* ------------------------------------------------------------ init called again
\* the configurations of a second init
ReinitArgs ==
  { <<2, [NoPolicy EXCEPT !.maxVoices = 2, !.minInterval = 0, !.stealStrategy = "stealOldest"], NoPolicy>>,
    <<2, NoPolicy, [NoPolicy EXCEPT !.maxVoices = 1, !.stealStrategy = "ignore", !.stealFadeMs = 50]>> }

\* mutant: the last-start map kept across init
ReinitLastStartAtKept == lastStartAt

\* this.lastStartAt = new Map()
ReinitLastStartAt == [n \in Names |-> NONE]

\* init on a controller that is in use: the configuration, the global Set and both
\* maps are replaced; the voices admitted before stay alive with their handlers, which
\* still hold the Set objects they captured
ReInit ==
  /\ \E c \in ReinitArgs :
       /\ global' = InitGlobal(c[1], c[2])
       /\ trackPolicies' = [n \in Names |-> IF n = "a" THEN c[3] ELSE NoPolicy]
  /\ Commit(voices, <<>>, trackSets, [n \in Names |-> 0])
  /\ lastStartAt' = ReinitLastStartAt
  /\ last' = [NoCall EXCEPT !.op = "reinit"]
  /\ Record([op |-> "reinit", name |-> "", plain |-> FALSE, result |-> 0])
  /\ UNCHANGED <<clock, library>>

ReinitInit ==
  /\ Init
  /\ \E c \in ReinitArgs :
       /\ global = InitGlobal(c[1], c[2])
       /\ trackPolicies = [n \in Names |-> IF n = "a" THEN c[3] ELSE NoPolicy]

ReinitNext ==
  \/ \E call \in Calls : Play(call[1], call[2])
  \/ Tick
  \/ \E v \in Slots : SourceEnded(v)
  \/ ReInit

ReinitSpec == ReinitInit /\ [][ReinitNext]_vars

\* ------------------------------------------------------------ AudioManager.get
NoModel == "undefined"

\* the config objects get is called with (a missing property is NONE / NoModel;
\* loop 1 is true)
GetConfigs ==
  [loop : {NONE, 1}, volume : {NONE, 5}, playbackRate : {NONE},
   refDistance : {NONE, 20}, rolloffFactor : {NONE, 2},
   distanceModel : {NoModel, "linear"}, position : {NONE, 1, 2}]

\* new AudioItem(listener) / new SpatialAudio(listener) with the buffer set
ItemNew(spatial) ==
  [spatial |-> spatial, loop |-> 0, volTarget |-> NONE, playbackRate |-> 1,
   isPlaying |-> FALSE, hasPlaybackControl |-> TRUE,
   panner |-> IF spatial THEN PannerNew ELSE [position |-> NONE]]

\* get(name, config, spatial): << >> is null, else <<the item returned>>
AudioManagerGet(name, cfg, spatial) ==
  IF name \notin Loaded THEN <<>>
  ELSE
    LET a1 == [ItemNew(spatial) EXCEPT
                 !.loop = IF cfg.loop # NONE THEN cfg.loop ELSE @,
                 !.volTarget = IF cfg.volume # NONE THEN cfg.volume ELSE @,
                 !.playbackRate = IF cfg.playbackRate # NONE THEN cfg.playbackRate ELSE @]
        a2 == [a1 EXCEPT
                 !.panner.refDistance = IF cfg.refDistance # NONE THEN cfg.refDistance ELSE @,
                 !.panner.rolloffFactor = IF cfg.rolloffFactor # NONE THEN cfg.rolloffFactor ELSE @,
                 !.panner.distanceModel = IF cfg.distanceModel # NoModel THEN cfg.distanceModel ELSE @]
    IN IF ~spatial THEN <<a1>>
       ELSE IF cfg.position # NONE THEN <<setPosition(a2, cfg.position)>>
       ELSE <<a2>>

\* a call manager.get(name, config, spatial); last keeps the arguments and the result
Get(name, cfg, spatial) ==
  /\ last' = [op |-> "get", result |-> Len(AudioManagerGet(name, cfg, spatial)), victim |-> 0,
              name |-> name, config |-> cfg, spatial |-> spatial,
              item |-> AudioManagerGet(name, cfg, spatial)]
  /\ UNCHANGED <<config, library, voices, registry, lastStartAt, clock, hist>>

ManagerNext == \E n \in Names, c \in GetConfigs, sp \in BOOLEAN : Get(n, c, sp)

ManagerSpec == Init /\ [][ManagerNext]_vars

\* ------------------------------------------------------------ AudioItem
MaxSources == 3

\* mutant: play() without the test of isPlaying
AudioItemPlayAlways(it, now) ==
  IF ~it.hasPlaybackControl THEN it
  ELSE [it EXCEPT !.startedAt = now, !.created = @ + 1, !.source = it.created + 1,
                  !.onended = "onEnded", !.srcEnded = FALSE,
                  !.isPlaying = TRUE, !.connected = TRUE]

\* play(): nothing when already playing or without playback control; else a new
\* buffer source, started at _progress + offset, with onEnded as its handler
AudioItemPlay(it, now) ==
  IF it.isPlaying THEN it
  ELSE IF ~it.hasPlaybackControl THEN it
  ELSE [it EXCEPT !.startedAt = now, !.created = @ + 1, !.source = it.created + 1,
                  !.onended = "onEnded", !.srcEnded = FALSE,
                  !.isPlaying = TRUE, !.connected = TRUE]

\* pause(): the elapsed time added to _progress, the source stopped, its handler cleared
AudioItemPause(it, now) ==
  IF ~it.hasPlaybackControl THEN it
  ELSE IF it.isPlaying
  THEN [it EXCEPT !.progress = @ + Max(now - it.startedAt, 0), !.onended = "null",
                  !.isPlaying = FALSE]
  ELSE it

\* stop(): _progress reset, the source (if any) stopped and its handler cleared
AudioItemStopped(it) ==
  IF ~it.hasPlaybackControl THEN it
  ELSE [it EXCEPT !.progress = 0, !.onended = IF it.source # 0 THEN "null" ELSE @,
                  !.isPlaying = FALSE]

\* onEnded(): isPlaying = false, _progress = 0
AudioItemOnEnded(it) == [it EXCEPT !.isPlaying = FALSE, !.progress = 0]

\* setNodeSource(audioNode): the item loses playback control (source -1: a node that is
\* not a buffer source)
AudioItemSetNodeSource(it) ==
  [it EXCEPT !.hasPlaybackControl = FALSE, !.source = -1, !.onended = "null", !.srcEnded = FALSE,
             !.connected = TRUE]

\* the calls on the item, and the end of its current buffer source
ItemPlay ==
  /\ item.created < MaxSources
  /\ item' = AudioItemPlay(item, clock)
  /\ last' = [op |-> "item.play", result |-> item'.created - item.created, victim |-> 0]
  /\ UNCHANGED <<config, voices, registry, lastStartAt, clock, hist, provider>>

ItemPause ==
  /\ item' = AudioItemPause(item, clock)
  /\ last' = [op |-> "item.pause", result |-> 0, victim |-> 0]
  /\ UNCHANGED <<config, voices, registry, lastStartAt, clock, hist, provider>>

ItemStop ==
  /\ item' = AudioItemStopped(item)
  /\ last' = [op |-> "item.stop", result |-> 0, victim |-> 0]
  /\ UNCHANGED <<config, voices, registry, lastStartAt, clock, hist, provider>>

ItemSetNodeSource ==
  /\ item.source = 0
  /\ item' = AudioItemSetNodeSource(item)
  /\ last' = [op |-> "item.setNodeSource", result |-> 0, victim |-> 0]
  /\ UNCHANGED <<config, voices, registry, lastStartAt, clock, hist, provider>>

ItemSourceEnded ==
  /\ item.source > 0 /\ ~item.srcEnded
  /\ item' = [(IF item.onended = "onEnded" THEN AudioItemOnEnded(item) ELSE item)
                EXCEPT !.srcEnded = TRUE]
  /\ last' = [op |-> "item.ended", result |-> 0, victim |-> 0]
  /\ UNCHANGED <<config, voices, registry, lastStartAt, clock, hist, provider>>

\* ------------------------------------------------------------ AudioContextProvider
\* the contexts an application injects
InjectedContexts == {11, 12}

\* mutant: _context compared with null instead of undefined
ProviderContextNullTest(pr) ==
  IF pr.context = NONE THEN [context |-> pr.created + 1, created |-> pr.created + 1]
  ELSE pr

\* static get context(): [the _context afterwards, the contexts created so far]
ProviderContext(pr) ==
  IF pr.context = UNDEFINED THEN [context |-> pr.created + 1, created |-> pr.created + 1]
  ELSE pr

\* a read of AudioContextProvider.context; last keeps the instance returned
ProviderGet ==
  /\ provider' = ProviderContext(provider)
  /\ last' = [op |-> "context", result |-> provider'.context, victim |-> 0]
  /\ UNCHANGED <<config, voices, registry, lastStartAt, clock, hist, item>>

\* AudioContextProvider.context = value
ProviderSet(value) ==
  /\ provider' = [provider EXCEPT !.context = value]
  /\ last' = [op |-> "context=", result |-> value, victim |-> 0]
  /\ UNCHANGED <<config, voices, registry, lastStartAt, clock, hist, item>>

\* the wrappers used on their own
LibraryNext ==
  \/ ItemPlay
  \/ ItemPause
  \/ ItemStop
  \/ ItemSetNodeSource
  \/ ItemSourceEnded
  \/ ProviderGet
  \/ \E c \in InjectedContexts : ProviderSet(c)
  \/ Tick

LibrarySpec == Init /\ [][LibraryNext]_vars

\* ------------------------------------------------------------ spatial one-shots
\* the spatialDefaults given to init, in the defaultPolicy and in the policy of track "a"
SpatialDefaultsArgs ==
  { <<>>,
    <<[NoSpatial EXCEPT !.refDistance = 3, !.maxDistance = 50,
                        !.coneInnerAngle = 60, !.coneOuterAngle = 120]>> }

\* the options.spatial objects of the calls
SpatialArgs ==
  [refDistance : {NONE, 5}, maxDistance : {NONE}, rolloffFactor : {NONE},
   coneInnerAngle : {NONE}, coneOuterAngle : {NONE}, coneOuterGain : {NONE, 1},
   position : {NONE, 1}]

\* the calls: plain or with any of these spatial objects on track "a", plain or with a
\* position and a rolloff factor on the other loaded track
SpatialCalls ==
  ({"a"} \X ({NoOptions} \cup {[NoOptions EXCEPT !.spatial = <<s>>] : s \in SpatialArgs}))
    \cup ((Loaded \ {"a"}) \X
            {NoOptions,
             [NoOptions EXCEPT !.spatial = <<[NoSpatial EXCEPT !.position = 2, !.rolloffFactor = 2]>>]})

SpatialInit ==
  /\ \E d \in SpatialDefaultsArgs, t \in SpatialDefaultsArgs :
       /\ global = InitGlobal(NONE, [NoPolicy EXCEPT !.spatialDefaults = d])
       /\ trackPolicies = [n \in Names |-> IF n = "a" THEN [NoPolicy EXCEPT !.spatialDefaults = t]
                                           ELSE NoPolicy]
  /\ voices = <<>>
  /\ trackSets = [n \in Names |-> <<>>]
  /\ active = <<>>
  /\ activeByTrack = [n \in Names |-> 0]
  /\ lastStartAt = [n \in Names |-> NONE]
  /\ clock = 0
  /\ last = NoCall
  /\ hist = <<>>
  /\ item = AudioItemNew
  /\ provider = ProviderNew

SpatialNext ==
  \/ \E call \in SpatialCalls : Play(call[1], call[2])
  \/ Tick
  \/ \E v \in Slots : SourceEnded(v)

SpatialSpec == SpatialInit /\ [][SpatialNext]_vars

\* ------------------------------------------------------------ timed one-shots
\* Requests with and without a duration are made until the clock reads MaxClock; the
\* clock advances, and the platform delivers "ended" for every source it has started.
TimedCalls == Loaded \X {NoOptions, [NoOptions EXCEPT !.duration = 1]}

Request ==
  /\ clock < MaxClock
  /\ \E call \in TimedCalls : Play(call[1], call[2])

FairNext ==
  \/ Request
  \/ Tick
  \/ \E v \in Slots : SourceEnded(v)

FairSpec ==
  /\ Init
  /\ [][FairNext]_vars
  /\ WF_vars(Tick)
  /\ \A v \in Slots : WF_vars(SourceEnded(v))

\* ------------------------------------------------------------ the caller's handle
\* play returns the voice {name, node, priority}; the caller may stop or pause the node
\* of a voice it holds. The node of a one-shot is a buffer-source AudioItem, with
\* playback control.
\* AudioItem.pause() on the node of a voice: only when isPlaying, source.stop() now,
\* onended = null, isPlaying = false
PauseNode(node) ==
  IF node.isPlaying
  THEN [node EXCEPT !.stopAt = clock, !.onended = "null", !.isPlaying = FALSE]
  ELSE node

\* voice.node.stop()
NodeStop(v) ==
  /\ v \in Live
  /\ voices' = [voices EXCEPT ![v] = AudioItemStop(@, 0)]
  /\ last' = [NoCall EXCEPT !.op = "node.stop", !.result = v]
  /\ Record([op |-> "node.stop", name |-> voices[v].name, plain |-> FALSE, result |-> v])
  /\ UNCHANGED <<config, library, registry, lastStartAt, clock>>

\* voice.node.pause()
NodePause(v) ==
  /\ v \in Live
  /\ voices' = [voices EXCEPT ![v] = PauseNode(@)]
  /\ last' = [NoCall EXCEPT !.op = "node.pause", !.result = v]
  /\ Record([op |-> "node.pause", name |-> voices[v].name, plain |-> FALSE, result |-> v])
  /\ UNCHANGED <<config, library, registry, lastStartAt, clock>>

\* the caller stops or pauses the node of a voice it holds, until the clock reads
\* MaxClock
Handle ==
  /\ clock < MaxClock
  /\ \E v \in Slots : NodeStop(v) \/ NodePause(v)

\* plays, the caller's stops and pauses, the clock, and "ended" delivered for every
\* source the platform has started
CallerNext ==
  \/ Request
  \/ Handle
  \/ Tick
  \/ \E v \in Slots : SourceEnded(v)

CallerSpec ==
  /\ Init
  /\ [][CallerNext]_vars
  /\ WF_vars(Tick)
  /\ \A v \in Slots : WF_vars(SourceEnded(v))

\* ============================================================ claims
MinOf(S) == CHOOSE x \in S : \A y \in S : x <= y
Registered == Elems(active)
\* the last step recorded in hist (hist is not empty and has not overflowed)
HistKnown == hist # Over /\ Len(hist) > 0
LastEntry == hist[Len(hist)]
\* the last step was a plain play(n) (no options) that returned null
PlainRejected(n) ==
  /\ HistKnown
  /\ last.op = "play" /\ last.result = 0
  /\ LastEntry.op = "play" /\ LastEntry.name = n /\ LastEntry.plain
\* the voices a step removed from the registry
Evicted == Elems(active) \ Elems(active')

\* ------------------------------------------------------------ C1
\* C1: in every reachable state the number of registered voices, getActiveCount(),
\* is at most maxGlobalVoices.
C1_GlobalLimit == getActiveCountAll <= global.maxGlobalVoices

\* a steal has just made room at the global limit: the registry is full
C1_Witness ==
  /\ last.op = "play" /\ last.victim # 0
  /\ getActiveCountAll = global.maxGlobalVoices
  /\ getActiveCountAll >= 2

\* ------------------------------------------------------------ C2
\* C2: in every reachable state, for every track T, getActiveCount(T) is at most the
\* maxVoices of T's resolved policy, whatever the steal strategy and the other tracks.
C2_TrackLimit == \A n \in Names : getActiveCount(n) <= getPolicy(n).maxVoices

\* ------------------------------------------------------------ C3
\* C3: in every reachable state getActiveCount() equals the sum of getActiveCount(t)
\* over the tracks.
RECURSIVE SumCounts(_)
SumCounts(S) ==
  IF S = {} THEN 0
  ELSE LET n == CHOOSE x \in S : TRUE IN getActiveCount(n) + SumCounts(S \ {n})

C3_CountIsSum == getActiveCountAll = SumCounts(Names)

\* voices of both tracks are registered right after a steal
C3_Witness ==
  /\ last.op = "play" /\ last.victim # 0
  /\ getActiveCount("a") >= 1 /\ getActiveCount("b") >= 1

\* ------------------------------------------------------------ C4
\* C4: in every reachable state each voice is either in the global set and in exactly
\* one per-track set, that of its own name, or in neither.
HoldingTracks(v) == {n \in Names : v \in Elems(TrackSetOf(n))}

C4_Membership ==
  \A v \in Live :
    IF v \in Registered THEN HoldingTracks(v) = {voices[v].name}
    ELSE HoldingTracks(v) = {}

\* an evicted voice is in neither while voices of both tracks are in both
C4_Witness ==
  /\ \E v \in Live : v \notin Registered
  /\ \E v \in Registered : voices[v].name = "a"
  /\ \E v \in Registered : voices[v].name = "b"

\* ------------------------------------------------------------ C5
\* C5 (as claimed): when track T holds maxVoices registered voices, a call
\* play(T, {stealStrategy: 'ignore'}) returns null and registers no voice.
C5_OptionIgnoreRejects ==
  [][\A n \in Loaded, opts \in PlayOptions :
       (/\ opts.stealStrategy = "ignore"
        /\ getActiveCount(n) = getPolicy(n).maxVoices
        /\ Play(n, opts))
       => (last'.result = 0 /\ UNCHANGED registry)]_vars

\* C5 (amended): when track T holds maxVoices registered voices and T's resolved
\* policy has stealStrategy 'ignore', every call play(T, options) returns null and
\* registers no voice, whatever its options.
C5_PolicyIgnoreRejects ==
  [][\A n \in Loaded, opts \in PlayOptions :
       (/\ getPolicy(n).stealStrategy = "ignore"
        /\ getActiveCount(n) = getPolicy(n).maxVoices
        /\ Play(n, opts))
       => (last'.result = 0 /\ UNCHANGED <<registry, voices>>)]_vars

\* a plain play(T) has just been refused by capacity alone: T is loaded, full, not
\* rate-limited, and its policy says 'ignore'
C5_Witness ==
  \E n \in Loaded :
    /\ PlainRejected(n)
    /\ getPolicy(n).stealStrategy = "ignore"
    /\ getActiveCount(n) = getPolicy(n).maxVoices
    /\ lastStartAt[n] # NONE
    /\ clock - lastStartAt[n] >= getPolicy(n).minInterval

\* ------------------------------------------------------------ C6
\* C6: under 'stealOldest' the voice a play(T) evicts is the earliest-admitted
\* registered voice of T when T has one, else the earliest-admitted registered voice.
C6_StealsOldest ==
  [][\A n \in Loaded, opts \in PlayOptions :
       (/\ getPolicy(n).stealStrategy = "stealOldest"
        /\ Play(n, opts)
        /\ Evicted # {})
       => Evicted = {IF getActiveCount(n) > 0 THEN MinOf(Elems(TrackSetOf(n)))
                     ELSE MinOf(Registered)}]_vars

\* the oldest of several voices of T has just been evicted under 'stealOldest'
C6_Witness ==
  /\ last.op = "play" /\ last.victim # 0
  /\ getPolicy(voices[last.result].name).stealStrategy = "stealOldest"
  /\ voices[last.victim].name = voices[last.result].name
  /\ getActiveCount(voices[last.result].name) >= 2

\* ------------------------------------------------------------ C7
\* C7: under 'stealQuietest' the evicted voice has the lowest priority of all
\* registered voices, and among those of that priority the lowest current volume.
C7_PriorityDominates ==
  [][\A n \in Loaded, opts \in PlayOptions :
       (/\ getPolicy(n).stealStrategy = "stealQuietest"
        /\ Play(n, opts))
       => \A v \in Evicted : \A w \in Registered :
            /\ voices[v].priority <= voices[w].priority
            /\ voices[v].priority = voices[w].priority => voices[v].vol <= voices[w].vol]_vars

\* ------------------------------------------------------------ C8
\* C8: a play call never evicts a voice of strictly greater priority than the
\* requester's (options.priority, else the policy's); when the selected victim has a
\* strictly greater priority the call returns null and the victim stays registered,
\* with its gain and its source untouched.
C8_NeverStealsMoreImportant ==
  [][\A n \in Loaded, opts \in PlayOptions :
       Play(n, opts) =>
         LET policy == getPolicy(n)
             pr == IF opts.priority # NONE THEN opts.priority ELSE policy.priority
             full == getActiveCountAll >= global.maxGlobalVoices
                     \/ getActiveCount(n) >= policy.maxVoices
             cand == pickVictim(policy.stealStrategy, TrackSetOf(n))
         IN /\ \A v \in Evicted : voices[v].priority <= pr
            /\ (full /\ cand # 0 /\ voices[cand].priority > pr)
                 => (last'.result = 0 /\ UNCHANGED <<registry, voices>>)]_vars

\* a plain play(T) has just been refused because the selected victim is more important
C8_Witness ==
  \E n \in Loaded :
    /\ PlainRejected(n)
    /\ getPolicy(n).stealStrategy # "ignore"
    /\ lastStartAt[n] = NONE
    /\ pickVictim(getPolicy(n).stealStrategy, TrackSetOf(n)) # 0
    /\ voices[pickVictim(getPolicy(n).stealStrategy, TrackSetOf(n))].priority > getPolicy(n).priority
    /\ pickVictim(getPolicy(n).stealStrategy, TrackSetOf(n)) \in Registered

\* ------------------------------------------------------------ C9
\* C9: with m = options.minIntervalOverride, else the policy's minInterval, play(T) at
\* clock reading now returns null when T was last admitted at reading last and
\* now - last < m; when now - last >= m or T was never admitted, it is admitted if
\* capacity permits.
C9_RateLimit ==
  [][\A n \in Loaded, opts \in PlayOptions :
       Play(n, opts) =>
         LET policy == getPolicy(n)
             m == IF opts.minIntervalOverride # NONE THEN opts.minIntervalOverride
                  ELSE policy.minInterval
             never == lastStartAt[n] = NONE
             cap == ensureCapacity(policy, TrackSetOf(n), NewPriority(policy, opts))
         IN /\ (~never /\ clock - lastStartAt[n] < m)
                 => (last'.result = 0 /\ UNCHANGED <<registry, voices, lastStartAt>>)
            /\ ((never \/ clock - lastStartAt[n] >= m) /\ cap.ok)
                 => (/\ last'.result # 0
                     /\ last'.result \in Elems(active')
                     /\ lastStartAt'[n] = clock)]_vars

\* a plain play(T) has just been refused at a later clock reading than T's last
\* admission, still under minInterval, although T has room
C9_Witness ==
  \E n \in Loaded :
    /\ PlainRejected(n)
    /\ lastStartAt[n] # NONE
    /\ clock > lastStartAt[n]
    /\ clock - lastStartAt[n] < getPolicy(n).minInterval
    /\ ensureCapacity(getPolicy(n), TrackSetOf(n), getPolicy(n).priority).ok

\* ------------------------------------------------------------ C10
\* C10: after init with maxGlobalVoices 2 and defaultPolicy {maxVoices 2, minInterval 0,
\* stealStrategy 'stealOldest'}, three consecutive play('a') all return a voice, the
\* third evicts the first-created voice, and exactly the second and third are registered.
EndToEndConfig ==
  /\ global.maxGlobalVoices = 2
  /\ global.defaultPolicy.maxVoices = 2
  /\ global.defaultPolicy.minInterval = 0
  /\ global.defaultPolicy.stealStrategy = "stealOldest"
  /\ \A n \in Names : trackPolicies[n] = NoPolicy

ThreePlaysOfA ==
  /\ hist # Over /\ Len(hist) = 3
  /\ \A i \in 1..3 : hist[i].op = "play" /\ hist[i].name = "a" /\ hist[i].plain

C10_EndToEnd ==
  (EndToEndConfig /\ ThreePlaysOfA) =>
    /\ \A i \in 1..3 : hist[i].result # 0
    /\ last.victim = hist[1].result
    /\ getActiveCountAll = 2
    /\ getActiveCount("a") = 2
    /\ Registered = {hist[2].result, hist[3].result}
    /\ hist[1].result \notin Registered

C10_Witness == EndToEndConfig /\ ThreePlaysOfA /\ last.victim # 0

\* ------------------------------------------------------------ C11
\* C11: a play call that returns null leaves the global set, every per-track set, the
\* map, every lastStartAt and every existing voice (gain, handler, scheduled stop)
\* unchanged; a refused request never evicts.
C11_RejectionHasNoEffect ==
  [][(last'.op = "play" /\ last'.result = 0)
       => UNCHANGED <<registry, lastStartAt, voices>>]_vars

\* a plain play(T) has just been refused by the rate gate in a state where the
\* capacity test would have evicted a registered voice
C11_Witness ==
  \E n \in Loaded :
    /\ PlainRejected(n)
    /\ RateLimited(clock, lastStartAt[n], getPolicy(n).minInterval)
    /\ ensureCapacity(getPolicy(n), TrackSetOf(n), getPolicy(n).priority).victim \in Registered

\* ------------------------------------------------------------ C12
\* C12: when the source of a registered voice reports ended (end of the buffer, or the
\* stop scheduled at now + duration) the voice leaves the global set and its track's
\* set and every other voice stays; with "ended" delivered for every started source,
\* once requests cease the registry empties for good.
C12_EndedDeregisters ==
  /\ [][\A v \in Slots :
          (v \in Registered /\ SourceEnded(v)) =>
            /\ active' = [i \in 1..(Len(active) - 1) |-> MoveUp(SetDelete(active, v)[i], v)]
            /\ \A n \in Names :
                 Len(TrackSetOf(n))' =
                   IF n = voices[v].name THEN Len(TrackSetOf(n)) - 1 ELSE Len(TrackSetOf(n))]_vars
  /\ <>[](active = <<>>)

\* a voice played with a duration has been stopped at its time and deregistered
C12_Witness ==
  /\ hist # Over /\ Len(hist) = 3
  /\ hist[1].op = "play" /\ ~hist[1].plain /\ hist[1].result # 0
  /\ hist[2].op = "tick"
  /\ hist[3].op = "ended"
  /\ active = <<>> /\ \A n \in Names : getActiveCount(n) = 0

\* ------------------------------------------------------------ C13
\* C13: when the stop of a voice evicted by a steal completes, the handler the platform
\* runs is the steal's cleanup, which disconnects the victim's node.
C13_CleanupRuns ==
  [][\A v \in Slots :
       (v \in Live /\ v \notin Registered /\ SourceEnded(v))
         => voices[v].onended = "cleanup"]_vars

\* ------------------------------------------------------------ C14
\* C14: right after a second init getActiveCount() is 0, getActiveCount(t) is 0 for
\* every track, no track has a last-start time, and no play is refused by the rate gate.
C14_ReinitReplaces ==
  last.op = "reinit" =>
    /\ getActiveCountAll = 0
    /\ \A n \in Names : getActiveCount(n) = 0 /\ lastStartAt[n] = NONE
    /\ \A n \in Loaded, opts \in PlayOptions :
         ~RateLimited(clock, lastStartAt[n], EffectiveMinInterval(getPolicy(n), opts))

\* init has just been called again while a voice admitted before it is still playing,
\* on a track whose minInterval has not elapsed since
C14_Witness ==
  /\ last.op = "reinit"
  /\ \E v \in Live :
       /\ voices[v].onended = "handleEnd"
       /\ getPolicy(voices[v].name).minInterval > clock

\* ------------------------------------------------------------ C15
\* C15: the ended notification of a voice that is not registered (admitted before a
\* re-init, or evicted) leaves the global count and every per-track count unchanged.
C15_UntrackedEndIsInert ==
  [][\A v \in Slots :
       (v \in Live /\ v \notin Registered /\ SourceEnded(v)) =>
         /\ Len(active') = Len(active)
         /\ \A n \in Names : Len(TrackSetOf(n))' = Len(TrackSetOf(n))]_vars

\* ------------------------------------------------------------ C16
\* C16: for each of maxVoices, minInterval, priority, stealStrategy and stealFadeMs,
\* getPolicy(track) returns the track's value if it has one, else the defaultPolicy's
\* value if it has one, else the hardcoded fallback (8, 0.02 s, 0, 'ignore', 120).
HasValue(x) == x # NONE /\ x # UNDEFINED
HasValueStr(x) == x # NoStrategy /\ x # UndefinedStrategy
ThreeLevel(t, d, fallback) == IF HasValue(t) THEN t ELSE IF HasValue(d) THEN d ELSE fallback
ThreeLevelStr(t, d, fallback) ==
  IF HasValueStr(t) THEN t ELSE IF HasValueStr(d) THEN d ELSE fallback

C16_ThreeLevelFallback ==
  last.op = "getPolicy" =>
    LET t == trackPolicies[last.name]
        d == global.defaultPolicy
    IN /\ last.policy.maxVoices = ThreeLevel(t.maxVoices, d.maxVoices, DefaultMaxVoices)
       /\ last.policy.minInterval = ThreeLevel(t.minInterval, d.minInterval, DefaultMinInterval)
       /\ last.policy.priority = ThreeLevel(t.priority, d.priority, DefaultPriority)
       /\ last.policy.stealStrategy =
            ThreeLevelStr(t.stealStrategy, d.stealStrategy, DefaultStealStrategy)
       /\ last.policy.stealFadeMs = ThreeLevel(t.stealFadeMs, d.stealFadeMs, DefaultStealFadeMs)

\* ------------------------------------------------------------ C17
\* C17: getActiveCount(name) is the number of registered voices of that track, and 0
\* for every name without one, whether or not it was ever configured, loaded or played.
QueryNames == Names \cup {"never", ""}

C17_CountOfTrack ==
  \A q \in QueryNames :
    getActiveCount(q) = Cardinality({v \in Registered : voices[v].name = q})

\* ------------------------------------------------------------ C18
\* C18: over plays, completions, steals and clock advances no track's lastStartAt ever
\* decreases (no entry counts as before every time), and it changes only on a step
\* that admits a play of that track, to the clock reading of that call.
C18_LastStartMonotone ==
  [][\A n \in Names :
       /\ lastStartAt'[n] >= lastStartAt[n]
       /\ lastStartAt'[n] # lastStartAt[n] =>
            /\ last'.op = "play" /\ last'.result # 0
            /\ voices'[last'.result].name = n
            /\ lastStartAt'[n] = clock]_vars

\* a track admitted at one clock reading has just been admitted again at a later one
C18_Witness ==
  /\ hist # Over /\ Len(hist) = 3
  /\ hist[1].op = "play" /\ hist[1].result # 0
  /\ hist[2].op = "tick"
  /\ hist[3].op = "play" /\ hist[3].result # 0 /\ hist[3].name = hist[1].name
  /\ lastStartAt[hist[3].name] = clock /\ clock > 0

\* ------------------------------------------------------------ C19
\* C19: when node.disconnect() throws in handleEnd the voice still leaves the global
\* set and its track's set; when scheduling the fade, stopping or disconnecting the
\* victim throws during a steal the victim still leaves both and the new voice is
\* admitted; the count-equals-sum and membership invariants hold throughout.
C19_FaultsSwallowed ==
  /\ [](C3_CountIsSum /\ C4_Membership)
  /\ [][\A v \in Slots :
          (v \in Registered /\ SourceEndedFaulty(v, TRUE)) =>
            /\ Len(active') = Len(active) - 1
            /\ \A n \in Names :
                 Len(TrackSetOf(n))' =
                   IF n = voices[v].name THEN Len(TrackSetOf(n)) - 1 ELSE Len(TrackSetOf(n))]_vars
  /\ [][\A call \in FaultCalls, f \in Faults :
          LET policy == getPolicy(call[1])
              cap == ensureCapacity(policy, TrackSetOf(call[1]), NewPriority(policy, call[2]))
          IN (/\ call[1] \in Loaded
              /\ ~RateLimited(clock, lastStartAt[call[1]], EffectiveMinInterval(policy, call[2]))
              /\ cap.ok /\ cap.victim # 0
              /\ PlayFaulty(call[1], call[2], f)) =>
               /\ last'.result # 0 /\ last'.result \in Elems(active')
               /\ cap.victim \notin Elems(active')
               /\ \A n \in Names : cap.victim \notin Elems(TrackSetOf(n)')]_vars

\* a steal has just succeeded although the fade, the stop and the disconnect of the
\* victim all threw: the victim plays on, connected, outside the registry
C19_Witness ==
  /\ last.op = "play" /\ last.victim # 0 /\ last.result \in Registered
  /\ last.victim \notin Registered
  /\ voices[last.victim].rampEnd = NONE /\ voices[last.victim].stopAt = NONE
  /\ voices[last.victim].connected /\ voices[last.victim].onended = "null"

\* ------------------------------------------------------------ C20
\* C20: play returns a voice if and only if exactly one voice has been created and
\* registered, in the global set and in the set of the requested track, with priority
\* options.priority if given, else the policy's; and a registered voice leaves the
\* registry only on the step that handles its own ended or on the play that evicts it.
C20_VoiceLifecycle ==
  [][/\ \A call \in Calls :
          Play(call[1], call[2]) =>
            LET new == Len(voices) + 1
                pr == IF call[2].priority # NONE THEN call[2].priority
                      ELSE getPolicy(call[1]).priority
            IN /\ (last'.result # 0) <=>
                    (/\ Len(voices') = Len(voices) + 1
                     /\ Elems(active') \ Elems(active) = {new}
                     /\ new \in Elems(TrackSetOf(call[1])')
                     /\ \A n \in Names \ {call[1]} : new \notin Elems(TrackSetOf(n)')
                     /\ voices'[new].name = call[1]
                     /\ voices'[new].priority = pr)
               /\ last'.result # 0 => last'.result = new
               /\ last'.result = 0 => Len(voices') = Len(voices)
     /\ last'.op = "play" =>
          Evicted \subseteq (IF last'.victim = 0 THEN {} ELSE {last'.victim})
     /\ last'.op = "tick" => active' = active
     /\ last'.op = "ended" =>
          LET rest == SetDelete(active, last'.result)
          IN active' = [i \in 1..Len(rest) |->
                          IF Len(voices') < Len(voices) THEN MoveUp(rest[i], last'.result)
                          ELSE rest[i]]]_vars

\* a play carrying a priority has just been admitted by evicting a voice
C20_Witness ==
  /\ HistKnown /\ LastEntry.op = "play" /\ ~LastEntry.plain
  /\ last.op = "play" /\ last.result \in Registered /\ last.victim # 0
  /\ voices[last.result].priority = 2
  /\ getPolicy(voices[last.result].name).priority # 2

\* ------------------------------------------------------------ C21
\* C21: in every reachable state the node of every registered voice is connected.
C21_RegisteredConnected == \A v \in Registered : voices[v].connected

\* a voice has just ended (its node disconnected, the voice deregistered) while another
\* stays registered and an evicted one is still fading
C21_Witness ==
  /\ last.op = "ended"
  /\ Registered # {}
  /\ \E v \in Live : v \notin Registered

\* ------------------------------------------------------------ C22
\* C22: get(name, config, true) with config.position returns a SpatialAudio whose
\* panner position is config.position.
C22_GetSetsPosition ==
  (last.op = "get" /\ last.result = 1 /\ last.spatial /\ last.config.position # NONE)
    => last.item[1].panner.position = last.config.position

\* what get does with the position: the item it returns is not playing, so the
\* panner stays where createPanner put it, while the other properties are set
C22_PositionDropped ==
  (last.op = "get" /\ last.result = 1 /\ last.spatial)
    => /\ last.item[1].panner.position = PannerNew.position
       /\ ~last.item[1].isPlaying
       /\ last.config.refDistance # NONE => last.item[1].panner.refDistance = last.config.refDistance

\* ------------------------------------------------------------ C23
\* the place of a voice in the insertion order of a Set
IndexIn(seq, x) == CHOOSE i \in 1..Len(seq) : seq[i] = x

\* C23: under 'stealQuietest' the evicted voice has the least score
\* priority * -1000 + currentVolume of all registered voices, of every track, and of
\* the voices with that score it is the one inserted first.
C23_QuietestMinimisesScore ==
  [][\A n \in Loaded, opts \in PlayOptions :
       (/\ getPolicy(n).stealStrategy = "stealQuietest"
        /\ Play(n, opts))
       => \A v \in Evicted : \A w \in Registered :
            \/ Score(v) < Score(w)
            \/ Score(v) = Score(w) /\ IndexIn(active, v) <= IndexIn(active, w)]_vars

\* a play has just evicted, under 'stealQuietest', a voice of another track that is
\* quieter than a voice still registered
C23_Witness ==
  /\ last.op = "play" /\ last.victim # 0
  /\ getPolicy(voices[last.result].name).stealStrategy = "stealQuietest"
  /\ voices[last.victim].name # voices[last.result].name
  /\ \E w \in Registered \ {last.result} :
       /\ voices[w].priority = voices[last.victim].priority
       /\ voices[w].vol > voices[last.victim].vol

\* ------------------------------------------------------------ C24
\* C24: a play that steals takes the victim out of the global Set and out of its
\* track's Set before it registers the new voice: when play returns the new voice is
\* registered, the victim is in no Set and the count has not grown, while the victim's
\* source has not ended yet (its stop lies at or after the present time).
C24_VictimLeavesAtOnce ==
  [][\A n \in Loaded, opts \in PlayOptions :
       (Play(n, opts) /\ last'.victim # 0)
       => LET v == last'.victim
              id == last'.result
          IN /\ v \in Registered
             /\ v \notin Elems(active')
             /\ \A m \in Names : v \notin Elems(TrackSetOf(m)')
             /\ id \notin Elems(active) /\ id \in Elems(active')
             /\ Len(active') = Len(active)
             /\ ~voices'[v].ended
             /\ voices'[v].stopAt >= clock
             /\ voices'[v].connected]_vars

\* a play has just stolen: the new voice is registered and the victim is not, though
\* the victim is still fading
C24_Witness ==
  /\ last.op = "play" /\ last.victim # 0
  /\ last.result \in Registered
  /\ last.victim \in Live /\ last.victim \notin Registered
  /\ ~voices[last.victim].ended
  /\ voices[last.victim].stopAt > clock
  /\ voices[last.victim].vol > 0

\* ------------------------------------------------------------ C25
\* C25: the handleEnd of a voice and the cleanup of its eviction never both run: an
\* evicted voice no longer has handleEnd installed, and the step in which its source
\* ends removes no voice from the global Set or from a track's Set and deletes no
\* entry of the per-track map.
C25_HandlersExclusive ==
  /\ [](\A v \in Live : v \notin Registered => voices[v].onended # "handleEnd")
  /\ [][\A v \in Slots :
          (v \in Live /\ v \notin Registered /\ SourceEnded(v))
            => /\ Elems(active') = {MoveUp(x, v) : x \in Elems(active)}
               /\ \A n \in Names :
                    /\ (activeByTrack'[n] # 0) <=> (activeByTrack[n] # 0)
                    /\ Elems(TrackSetOf(n))' = {MoveUp(x, v) : x \in Elems(TrackSetOf(n))}]_vars

\* the source of a voice evicted from a one-voice track has just ended while the voice
\* that took its place is registered in that track
C25_Witness ==
  /\ hist # Over /\ Len(hist) = 3
  /\ hist[1].op = "play" /\ hist[1].result # 0
  /\ hist[2].op = "play" /\ hist[2].result # 0 /\ hist[2].name = hist[1].name
  /\ getPolicy(hist[1].name).maxVoices = 1
  /\ hist[3].op = "ended" /\ last.op = "ended" /\ last.result = 1
  /\ Len(voices) = 1 /\ Registered = {1}
  /\ getActiveCount(hist[1].name) = 1

\* ------------------------------------------------------------ C26
\* C26: a play on a loaded track that passes the rate gate while neither the global
\* count nor the track's count is at its limit is admitted and leaves every existing
\* voice and its node as they were; and no play evicts more than one voice or changes
\* the node of more than one existing voice.
C26_NoStealBelowLimits ==
  [][\A n \in Loaded, opts \in PlayOptions :
       Play(n, opts)
       => LET policy == getPolicy(n)
          IN /\ (/\ ~RateLimited(clock, lastStartAt[n], EffectiveMinInterval(policy, opts))
                 /\ Len(active) < global.maxGlobalVoices
                 /\ getActiveCount(n) < policy.maxVoices)
                => /\ last'.result # 0 /\ last'.victim = 0
                   /\ Evicted = {}
                   /\ \A v \in Live : voices'[v] = voices[v]
             /\ Cardinality(Evicted) <= 1
             /\ Cardinality({v \in Live : voices'[v] # voices[v]}) <= 1]_vars

\* a play has just been admitted next to a registered voice without an eviction,
\* filling the last free place of the global limit
C26_Witness ==
  /\ last.op = "play" /\ last.result # 0 /\ last.victim = 0
  /\ Len(active) = global.maxGlobalVoices
  /\ Len(active) >= 2
  /\ \A v \in Registered : voices[v].onended = "handleEnd" /\ voices[v].rampEnd = NONE

\* ------------------------------------------------------------ C27
\* C27: a steal at time t under stealFadeMs = f ramps the victim's gain linearly from
\* its current value to 0 at t + f/1000 s and schedules the stop of the victim's node
\* for that same time; with f = 0 the stop is scheduled at t.
C27_FadeThenStop ==
  /\ [][\A n \in Loaded, opts \in PlayOptions :
          (Play(n, opts) /\ last'.victim # 0)
          => LET v == last'.victim
                 f == getPolicy(n).stealFadeMs
                 end == clock + (f * TicksPerSecond) \div 1000
             IN /\ f >= 0
                /\ voices'[v].rampEnd = end
                /\ voices'[v].stopAt = end
                /\ voices'[v].vol = voices[v].vol
                /\ voices'[v].volTarget = NONE
                /\ f = 0 => voices'[v].stopAt = clock]_vars
  /\ [][Tick => \A v \in Live :
          voices[v].rampEnd # NONE
          => /\ voices'[v].vol <= voices[v].vol
             /\ clock' < voices[v].rampEnd
                  => voices'[v].vol * (voices[v].rampEnd - clock) >=
                       voices[v].vol * (voices[v].rampEnd - clock')  - (voices[v].rampEnd - clock)
             /\ clock' >= voices[v].rampEnd => voices'[v].vol = 0]_vars

\* a steal under the default stealFadeMs of 120 has just scheduled the victim's fade
\* and stop 0.12 s ahead, the victim's gain still at its value
C27_Witness ==
  /\ last.op = "play" /\ last.victim # 0
  /\ getPolicy(voices[last.result].name).stealFadeMs = DefaultStealFadeMs
  /\ voices[last.victim].stopAt = clock + (DefaultStealFadeMs * TicksPerSecond) \div 1000
  /\ voices[last.victim].rampEnd = voices[last.victim].stopAt
  /\ voices[last.victim].stopAt > clock
  /\ voices[last.victim].vol > 0

\* ------------------------------------------------------------ C28
\* C28: the spatialDefaults of the policy getPolicy(track) returns is the track's own
\* when it has one, else the defaultPolicy's.
C28_SpatialDefaultsFallBack ==
  last.op = "getPolicy"
    => last.policy.spatialDefaults =
         IF trackPolicies[last.name].spatialDefaults # <<>>
         THEN trackPolicies[last.name].spatialDefaults
         ELSE global.defaultPolicy.spatialDefaults

\* what getPolicy returns: the track's spatialDefaults or nothing, whatever the
\* defaultPolicy holds
C28_TrackOnly ==
  last.op = "getPolicy"
    => last.policy.spatialDefaults = trackPolicies[last.name].spatialDefaults

\* ------------------------------------------------------------ C29
DistanceParameters == {"refDistance", "maxDistance", "rolloffFactor"}
ConeParameters == {"coneInnerAngle", "coneOuterAngle", "coneOuterGain"}
\* the spatialDefaults of a resolved policy and the spatial object of a call, as objects
DefaultsOf(policy) == IF policy.spatialDefaults = <<>> THEN NoSpatial ELSE policy.spatialDefaults[1]

\* C29: each spatial parameter of the node of an admitted spatial play is the call's
\* options.spatial value when given, else the policy's spatialDefaults value when
\* given (else the node's initial value): a value given in the call replaces that
\* parameter only.
C29_PerParameterOverride ==
  [][\A call \in SpatialCalls :
       (Play(call[1], call[2]) /\ last'.result # 0 /\ call[2].spatial # <<>>)
       => LET sp == call[2].spatial[1]
              sd == DefaultsOf(getPolicy(call[1]))
              panner == voices'[last'.result].panner[1]
          IN \A q \in DistanceParameters \cup ConeParameters :
               panner[q] = IF sp[q] # NONE THEN sp[q]
                           ELSE IF sd[q] # NONE THEN sd[q]
                           ELSE PannerNew[q]]_vars

\* what play applies: the three distance parameters one by one as stated, the three
\* cone parameters as a group (when the call gives any of them, the ones it does not
\* give get 360, 360 and 0, not the policy's values)
C29_ConeAsGroup ==
  [][\A call \in SpatialCalls :
       (Play(call[1], call[2]) /\ last'.result # 0 /\ call[2].spatial # <<>>)
       => LET sp == call[2].spatial[1]
              sd == DefaultsOf(getPolicy(call[1]))
              panner == voices'[last'.result].panner[1]
              fallback == [q \in ConeParameters |->
                            IF q = "coneOuterGain" THEN ConeGainFallback ELSE ConeAngleFallback]
          IN /\ \A q \in DistanceParameters :
                  panner[q] = IF sp[q] # NONE THEN sp[q]
                              ELSE IF sd[q] # NONE THEN sd[q]
                              ELSE PannerNew[q]
             /\ \A q \in ConeParameters :
                  panner[q] = IF \E r \in ConeParameters : sp[r] # NONE
                              THEN Coalesce(sp[q], fallback[q])
                              ELSE IF \E r \in ConeParameters : sd[r] # NONE
                              THEN Coalesce(sd[q], fallback[q])
                              ELSE PannerNew[q]]_vars

\* ------------------------------------------------------------ C30
\* C30: the node of an admitted spatial play with options.spatial.position is playing
\* when the position is issued, and its panner's position is the one requested.
C30_PositionAfterStart ==
  [][\A call \in SpatialCalls :
       (/\ Play(call[1], call[2]) /\ last'.result # 0
        /\ call[2].spatial # <<>>
        /\ call[2].spatial[1].position # NONE)
       => /\ voices'[last'.result].isPlaying
          /\ voices'[last'.result].panner[1].position = call[2].spatial[1].position]_vars

\* a spatial voice has just been admitted and its panner is away from the origin
C30_Witness ==
  /\ last.op = "play" /\ last.result # 0
  /\ Len(voices[last.result].panner) = 1
  /\ voices[last.result].panner[1].position # PannerNew.position
  /\ voices[last.result].isPlaying
  /\ last.result \in Registered

\* ------------------------------------------------------------ C31
\* a voice that was evicted and whose source has not ended yet
Fading(v) == v \in Live /\ v \notin Registered /\ voices[v].rampEnd # NONE /\ ~voices[v].ended

\* C31: a voice that is fading after its eviction is still among the voices a play
\* picks its victim from (the global Set, scanned by 'stealQuietest' and the fallback of
\* 'stealOldest'), so that a later play can evict it again.
C31_FadingStillEligible == \A v \in Live : Fading(v) => v \in Elems(active)

\* C31 as amended: the victim of a play is always a registered voice that has not been
\* evicted before; a play made while an evicted voice is fading evicts another voice
\* or none, and leaves the fading voice's node as it is.
C31_NoDoubleSteal ==
  [][\A n \in Loaded, opts \in PlayOptions :
       Play(n, opts)
       => /\ last'.victim # 0
               => /\ last'.victim \in Registered
                  /\ voices[last'.victim].rampEnd = NONE
                  /\ voices[last'.victim].onended = "handleEnd"
          /\ \A v \in Live : Fading(v) => voices'[v] = voices[v]]_vars

\* a play has just stolen while an earlier victim has not stopped yet: it took a
\* registered voice, and two evicted voices are now on their way out
C31_Witness ==
  /\ last.op = "play" /\ last.victim # 0
  /\ Fading(last.victim)
  /\ \E v \in Live : v < last.victim /\ Fading(v) /\ voices[v].stopAt >= clock

\* ------------------------------------------------------------ C32
\* C32: play() on an item that is playing changes nothing (no source is created,
\* isPlaying, the progress and the current source stay), and a source is created only
\* by a play() on an item that is not playing.
C32_PlayWhilePlaying ==
  /\ [][(ItemPlay /\ item.isPlaying) => item' = item]_vars
  /\ [][item'.created # item.created
          => /\ ItemPlay
             /\ ~item.isPlaying /\ item.hasPlaybackControl
             /\ item'.created = item.created + 1
             /\ item'.source = item'.created
             /\ item'.isPlaying]_vars

\* play() has just been called on an item that was playing, and created nothing
C32_Witness ==
  /\ last.op = "item.play" /\ last.result = 0
  /\ item.isPlaying /\ item.hasPlaybackControl
  /\ item.source = item.created /\ item.created >= 1

\* ------------------------------------------------------------ C33
\* C33: the getter creates a context at most once; a read returns the instance the
\* provider holds (the one created, or the one injected last) and creates none when
\* there is one; the setter makes the injected context the one held.
C33_Singleton ==
  /\ [](provider.created <= 1)
  /\ [][ProviderGet
          => /\ last'.result # UNDEFINED
             /\ last'.result = provider'.context
             /\ provider.context # UNDEFINED
                  => (provider' = provider /\ last'.result = provider.context)
             /\ provider.context = UNDEFINED
                  => (provider'.created = 1 /\ last'.result = 1)]_vars
  /\ [][\A c \in InjectedContexts :
          ProviderSet(c) => (provider'.context = c /\ provider'.created = provider.created)]_vars

\* a read has just returned an injected context, after the getter had created one
C33_Witness ==
  /\ last.op = "context"
  /\ last.result \in InjectedContexts
  /\ provider.created = 1
  /\ provider.context = last.result

\* ------------------------------------------------------------ C34
\* C34: an eviction is decided and timed by the resolved policy of the track that is
\* requested: that policy's strategy is not 'ignore' and the victim's fade and stop end
\* at now + that policy's stealFadeMs, whatever the policy of the victim's own track.
C34_RequesterPolicyOnly ==
  [][\A n \in Loaded, opts \in PlayOptions :
       (Play(n, opts) /\ last'.victim # 0)
       => LET req == getPolicy(n)
              end == clock + (Max(0, req.stealFadeMs) * TicksPerSecond) \div 1000
          IN /\ req.stealStrategy # "ignore"
             /\ voices'[last'.victim].stopAt = end
             /\ voices'[last'.victim].rampEnd = end]_vars

\* a request for another track has just evicted a voice of a track whose own policy
\* is 'ignore' with another fade time: the victim stops when the requester's fade ends
C34_Witness ==
  /\ last.op = "play" /\ last.victim # 0
  /\ voices[last.victim].name # voices[last.result].name
  /\ getPolicy(voices[last.victim].name).stealStrategy = "ignore"
  /\ getPolicy(voices[last.victim].name).stealFadeMs # getPolicy(voices[last.result].name).stealFadeMs
  /\ voices[last.victim].stopAt =
       clock + (getPolicy(voices[last.result].name).stealFadeMs * TicksPerSecond) \div 1000
  /\ last.victim \notin Registered

\* ------------------------------------------------------------ C35
\* C35: a play of track A, admitted or refused, leaves the last-start time of every
\* other track as it was; and a play of a loaded track B below both limits is admitted
\* exactly when B has no last-start time or the clock is at least B's interval past
\* it, whatever the last-start times of the other tracks.
C35_ThrottlePerTrack ==
  [][\A n \in Names, opts \in PlayOptions :
       Play(n, opts)
       => /\ \A m \in Names \ {n} : lastStartAt'[m] = lastStartAt[m]
          /\ (n \in Loaded /\ Len(active) < global.maxGlobalVoices
                /\ getActiveCount(n) < getPolicy(n).maxVoices)
               => LET minInt == IF opts.minIntervalOverride # NONE THEN opts.minIntervalOverride
                                ELSE getPolicy(n).minInterval
                  IN (last'.result # 0)
                       <=> (lastStartAt[n] = NONE \/ clock - lastStartAt[n] >= minInt)]_vars

\* a play of one track has just been admitted at the very time the other track
\* started, although the interval of the admitted track has not passed since then
C35_Witness ==
  /\ last.op = "play" /\ last.result # 0
  /\ \E m \in Loaded \ {voices[last.result].name} :
       /\ lastStartAt[m] = clock
       /\ getPolicy(voices[last.result].name).minInterval > 0
  /\ lastStartAt[voices[last.result].name] = clock
  /\ hist # Over /\ Len(hist) = 2 /\ hist[1].result # 0 /\ hist[2].result # 0

\* ------------------------------------------------------------ C36
\* a registered voice that the caller stopped or paused through its node: the source has
\* no handler left
StoppedByCaller(v) == v \in Registered /\ voices[v].onended = "null"

\* C36: a voice stopped or paused by the caller through voice.node is eventually removed
\* from the registry: whenever some registered voice has been stopped that way, a time
\* comes at which no registered voice is in that condition.
C36_StoppedVoiceRemoved ==
  (\E v \in Slots : v \in Live /\ StoppedByCaller(v))
    ~> (\A v \in Slots : v \in Live => ~StoppedByCaller(v))

\* what the code does: "ended" of a voice stopped by the caller finds no handler and
\* leaves the registry as it is
C36_StoppedVoiceStays ==
  [][\A v \in Slots :
       (v \in Live /\ StoppedByCaller(v) /\ SourceEnded(v)) => UNCHANGED registry]_vars

\* ------------------------------------------------------------ C37
\* C37: when the source of a registered one-shot voice ends and handleEnd deregisters the
\* voice, the node of the voice, as the handler leaves it, has isPlaying = false.
C37_EndedNodeNotPlaying ==
  [][\A v \in Slots :
       (v \in Registered /\ voices[v].onended = "handleEnd" /\ SourceEnded(v)
          /\ Len(active') = Len(active) - 1)
         => ~HandleEndNode(AudioItemDisconnect(voices[v])).isPlaying]_vars

\* what the code does: the handle's node keeps isPlaying = true after handleEnd
C37_EndedNodeStillPlaying ==
  [][\A v \in Slots :
       (v \in Registered /\ voices[v].onended = "handleEnd" /\ SourceEnded(v))
         => HandleEndNode(AudioItemDisconnect(voices[v])).isPlaying]_vars

====
